---------------------------- MODULE Spec2Model ----------------------------
(***************************************************************************)
(* A model of the epidata tools of memilio:                                *)
(*   - getPopulationData.py: get_new_counties, get_age_population_data     *)
(*   - getDataIntoPandasDataFrame.py: download_file, check_dir,            *)
(*     write_dataframe                                                     *)
(*                                                                         *)
(* Each tool has its own specification (SpecCounties, ...) over its own    *)
(* group of variables; the variables of the other tools stay idle.         *)
(*                                                                         *)
(* Modelling conventions                                                   *)
(*   - a numpy matrix is a sequence of rows, a row a sequence of numbers,  *)
(*     column 0 of the code being element 1 here;                          *)
(*   - float64 values are modelled as exact numbers (all values in the     *)
(*     matrices are integers cast to float; quotients are kept as          *)
(*     numerator/denominator and rounded as numpy rounds, half to even);   *)
(*   - text that is formatted or inspected is a sequence of one-character  *)
(*     strings.                                                            *)
(***************************************************************************)
EXTENDS Integers, Sequences, FiniteSets, TLC

VARIABLES
    pc,          \* where the modelled call stands: "start", ..., "returned", "raised"
    data_temp,   \* get_new_counties: the matrix passed in
    returned,    \* get_new_counties: the matrix returned (<<>> before the call)
    fs,          \* the file system: existing directories, and files with their contents
    df,          \* the caller's table object handed to write_dataframe
    calls,       \* the calls made so far: their arguments and the state each started from
    raised,      \* the exception the last call raised ([type |-> "none"]: it returned)

    zensus,      \* get_age_population_data: the census table read (path_zensus)
    reg_key,     \* get_age_population_data: the region-key table read (path_reg_key)
    counties,    \* get_age_population_data: the current-population table read
    out_form,    \* get_age_population_data: the out_form argument
    platform,    \* the build that runs the cast of a non-finite float to int
    key,         \* get_age_population_data: key[i] of census row i
    data,        \* get_age_population_data: data after get_new_counties
    ratio,       \* get_age_population_data: ratio[i] as <<numerator, denominator>>
    data_current, \* get_age_population_data: np.round(data_current).astype(int)
    response,    \* download_file: what requests.get answers (req)
    chunk_size,  \* download_file: the chunk_size argument
    progress_function, \* download_file: TRUE when a progress_function is passed
    encoding,    \* download_file: the encoding argument ("None" or a codec)
    file_size,   \* download_file: int(req.headers.get('content-length'))
    file,        \* download_file: the bytearray filled so far
    progress,    \* download_file: the local progress
    reported,    \* the arguments progress_function was called with, in order,
                 \* each the fraction <<numerator, denominator>>
    chunks,      \* the chunks iter_content has yielded so far
    raw_left,    \* bytes of the response not yet read from the connection
    body_left,   \* decoded bytes of the body not yet yielded
    result,      \* download_file: the buffer returned
    lc_pc,       \* loadCsv: "idle", "fetching", "returned", "raised"
    lc_args,     \* loadCsv: the arguments of the call
    default_dict, \* loadCsv: the dict object that is the default of param_dict
    caller_dict, \* loadCsv: the caller's dict object, when one is passed
    csv_options, \* loadCsv: param_dict once the defaults are filled in
    df_csv,      \* loadCsv: the table returned
    ncalls,      \* loadCsv: calls made so far
    todo,        \* clean_data: the directories still to visit, each with the
                 \* family whose files are deleted there
    printed,     \* the messages printed
    tool,        \* population: the function that is run
    read_data,   \* population: the read_data argument
    remote,      \* get_one_data_set: what the server answers for d.item
    fetched,     \* population: the remote tables read by the current run
    run_pc,      \* get_population_data: "start", "loading", "returned", "raised", "exited"
    runs         \* population: the file system each finished run left

ncVars == <<data_temp, returned>>
popInputs == <<zensus, reg_key, counties, out_form, platform>>
popVars == <<zensus, reg_key, counties, out_form, platform, key, data, ratio, data_current>>
dlInputs == <<response, chunk_size, progress_function, encoding>>
dlVars == <<response, chunk_size, progress_function, encoding, file_size, file,
            progress, reported, chunks, raw_left, body_left, result>>
lcVars == <<lc_pc, lc_args, default_dict, caller_dict, csv_options, df_csv, ncalls>>
cdVars == <<todo, printed>>
plVars == <<tool, read_data, remote, fetched, run_pc, runs>>
vars == <<pc, data_temp, returned, fs, df, calls, raised,
          zensus, reg_key, counties, out_form, platform, key, data, ratio, data_current,
          response, chunk_size, progress_function, encoding, file_size, file,
          progress, reported, chunks, raw_left, body_left, result,
          lc_pc, lc_args, default_dict, caller_dict, csv_options, df_csv, ncalls,
          todo, printed,
          tool, read_data, remote, fetched, run_pc, runs>>

\* The variables a tool leaves alone.
restOfCounties == <<fs, df, calls, raised, popVars, dlVars, lcVars, cdVars, plVars>>
restOfWriter == <<ncVars, popVars, dlVars, lcVars, cdVars, plVars>>
restOfPopulation == <<ncVars, df, dlVars, lcVars, cdVars, tool, read_data, remote, run_pc>>
restOfDownload == <<ncVars, fs, df, calls, popVars, lcVars, cdVars, plVars>>
restOfLoadCsv == <<ncVars, fs, df, calls, popVars, cdVars, plVars>>
restOfClean == <<ncVars, df, popVars, dlVars, lcVars, plVars>>

\* Values of the variables of a tool that is not running.
NoError == [type |-> "none"]
NoCall == [op |-> "none"]
\* The last call made.
call == IF calls = <<>> THEN NoCall ELSE calls[Len(calls)]
NoTable == [columns |-> <<>>, rows |-> <<>>]
\* Only the root directory exists.
EmptyFS == [dirs |-> {<<>>}, files |-> <<>>]

CountiesIdle == data_temp = <<>> /\ returned = <<>>
PopulationIdle ==
    /\ zensus = <<>> /\ reg_key = <<>> /\ counties = <<>>
    /\ out_form = "json" /\ platform = "x86_64"
    /\ key = <<>> /\ data = <<>> /\ ratio = <<>> /\ data_current = <<>>
\* An int argument that may be None, or be handed a string instead.
NoneInt == [none |-> TRUE, value |-> 0]
SomeInt(n) == [none |-> FALSE, value |-> n]
StrForInt(text) == [none |-> FALSE, value |-> 0, str |-> text]
IsStr(size) == "str" \in DOMAIN size
NoBuffer == [type |-> "none", value |-> <<>>]
NoResponse ==
    [status_code |-> 0, headers |-> {}, content_encoding |-> "identity",
     body |-> <<>>, raw_len |-> 0]
DownloadIdle ==
    /\ response = NoResponse /\ chunk_size = NoneInt
    /\ progress_function = FALSE /\ encoding = "None"
    /\ file_size = 0 /\ file = <<>> /\ progress = 0 /\ reported = <<>>
    /\ chunks = <<>> /\ raw_left = 0 /\ body_left = <<>> /\ result = NoBuffer
\* A dict without keys.
EmptyDict == [k \in {} |-> "None"]
NoArgs ==
    [targetFileName |-> "", supplied |-> FALSE, param_dict |-> EmptyDict, encoding |-> "None"]
NoCsv == [source |-> "none"]
LoadCsvIdle ==
    /\ lc_pc = "idle" /\ lc_args = NoArgs /\ default_dict = EmptyDict
    /\ caller_dict = EmptyDict /\ csv_options = EmptyDict /\ df_csv = NoCsv
    /\ ncalls = 0
CleanIdle == todo = <<>> /\ printed = {}
PipelineIdle ==
    /\ tool = "none" /\ read_data = FALSE /\ remote = NoResponse
    /\ fetched = {} /\ run_pc = "idle" /\ runs = <<>>
WriterIdle == fs = EmptyFS /\ df = NoTable /\ calls = <<>> /\ raised = NoError

(***************************************************************************)
(* Bounds of the model.                                                    *)
(***************************************************************************)
MaxRows == 2   \* rows of an input matrix
MaxVal == 1    \* largest value of a non-key column of an enumerated input
MaxBody == 3   \* bytes of a response body, and of its compressed form
MaxChunk == 2  \* largest chunk_size passed to download_file
MaxCalls == 2  \* calls of loadCsv in a row
MaxFiles == 2  \* files under out_path before clean_data

(***************************************************************************)
(* get_new_counties (getPopulationData.py:64-135)                          *)
(***************************************************************************)

\* The region keys written into the 7 appended rows, rows -7 .. -1.
Successors == <<3159, 13071, 13072, 13073, 13074, 13075, 13076>>

\* The key lists of the 7 "if data_temp[i,0] in [...]" blocks, in code order.
FusedInto ==
    << {3152, 3156},
       {13056, 13002, 13055, 13052},
       {13051, 13053},
       {13061, 13005, 13057},
       {13006, 13058},
       {13059, 13062, 13001},
       {13054, 13060} >>

PredecessorKeys == UNION {FusedInto[s] : s \in 1..Len(FusedInto)}
SuccessorKeys == {Successors[s] : s \in 1..Len(Successors)}

\* The non-key columns of the matrices of this model (the code takes the
\* width from data_temp.shape[1]; the pipeline passes Total and 11 brackets).
ValueColumns == <<"Total", "<3 years">>
Width == 1 + Len(ValueColumns)

\* np.zeros((7, shape[1])) with the keys of lines 69-87 written in.
NewCountyRows ==
    [s \in 1..Len(Successors) |->
        [c \in 1..Width |-> IF c = 1 THEN Successors[s] ELSE 0]]

\* An addition that starts one column late: data_temp[target, 2:] += ...
AddIntoFromSecondColumn(arr, target, i) ==
    [arr EXCEPT ![target] =
        [c \in 1..Len(arr[target]) |->
            IF c <= 2 THEN arr[target][c] ELSE arr[target][c] + arr[i][c]]]

\* data_temp[target, 1:] += data_temp[i, 1:]
AddInto(arr, target, i) ==
    [arr EXCEPT ![target] =
        [c \in 1..Len(arr[target]) |->
            IF c = 1 THEN arr[target][1] ELSE arr[target][c] + arr[i][c]]]

\* FuseBlock gone wrong: the row is assigned, not accumulated.
FuseBlockAssigns(st, i, b) ==
    IF st.data[i][1] \in FusedInto[b]
    THEN [data |-> [st.data EXCEPT ![Len(st.data) - 7 + b] =
                       [c \in 1..Len(st.data[i]) |->
                           IF c = 1 THEN st.data[Len(st.data) - 7 + b][1]
                           ELSE st.data[i][c]]],
          to_delete |-> Append(st.to_delete, i)]
    ELSE st

\* One of the 7 if-blocks of the loop body, for row i.
FuseBlock(st, i, b) ==
    IF st.data[i][1] \in FusedInto[b]
    THEN [data |-> AddInto(st.data, Len(st.data) - 7 + b, i),
          to_delete |-> Append(st.to_delete, i)]
    ELSE st

RECURSIVE FuseBlocks(_, _, _)
FuseBlocks(st, i, b) ==
    IF b > Len(FusedInto) THEN st
    ELSE FuseBlocks(FuseBlock(st, i, b), i, b + 1)

\* for i in range(len(data_temp[:,0])): the 7 blocks
RECURSIVE FuseRows(_, _)
FuseRows(st, i) ==
    IF i > Len(st.data) THEN st
    ELSE FuseRows(FuseBlocks(st, i, 1), i + 1)

\* np.delete(data_temp, to_delete, 0)
DeleteRows(arr, to_delete) ==
    LET gone == {to_delete[k] : k \in 1..Len(to_delete)}
        RECURSIVE Keep(_)
        Keep(i) == IF i > Len(arr) THEN <<>>
                   ELSE (IF i \in gone THEN <<>> ELSE <<arr[i]>>) \o Keep(i + 1)
    IN Keep(1)

\* Insert index i into the index list inds, already ordered by key, after
\* every index whose key is not larger.
RECURSIVE InsertInd(_, _, _)
InsertInd(keys, inds, i) ==
    IF inds = <<>> THEN <<i>>
    ELSE IF keys[Head(inds)] <= keys[i]
         THEN <<Head(inds)>> \o InsertInd(keys, Tail(inds), i)
         ELSE <<i>> \o inds

\* A sort that leaves the rows where they are.
ArgSortIdentity(keys) == [i \in 1..Len(keys) |-> i]

\* np.argsort(keys): the indices that order keys ascending.  Equal keys are
\* left in their order (numpy's default sort does not promise that; the
\* formulas below do not depend on the order of rows with equal keys).
ArgSort(keys) ==
    LET RECURSIVE Upto(_)
        Upto(n) == IF n = 0 THEN <<>> ELSE InsertInd(keys, Upto(n - 1), n)
    IN Upto(Len(keys))

KeyColumn(arr) == [i \in 1..Len(arr) |-> arr[i][1]]

\* data_temp[sorted_inds, :]
TakeRows(arr, inds) == [k \in 1..Len(inds) |-> arr[inds[k]]]

get_new_counties(matrix) ==
    LET appended == matrix \o NewCountyRows
        fused == FuseRows([data |-> appended, to_delete |-> <<>>], 1)
        kept == DeleteRows(fused.data, fused.to_delete)
    IN TakeRows(kept, ArgSort(KeyColumn(kept)))

(***************************************************************************)
(* Inputs of get_new_counties.                                             *)
(***************************************************************************)

\* Keys of the enumerated input rows: counties untouched by the reform
\* (below and above every successor), predecessors and a successor.
InputKeys == {1001, 3152, 3156, 3159, 13054, 16077}

InputRows ==
    {<<k>> \o v : k \in InputKeys, v \in [1..Len(ValueColumns) -> 0..MaxVal]}

\* The matrices of n rows.
MatricesOfLen(n) == [1..n -> InputRows]

\* The scenario of the specification: 3152 with [10, 20], 3156 with [5, 8].
GoettingenExample == << <<3152, 10, 20>>, <<3156, 5, 8>> >>

InitCounties ==
    /\ pc = "start"
    /\ \/ \E n \in 0..MaxRows : data_temp \in MatricesOfLen(n)
       \/ data_temp = GoettingenExample
    /\ returned = <<>>
    /\ WriterIdle
    /\ PopulationIdle
    /\ DownloadIdle
    /\ LoadCsvIdle
    /\ CleanIdle
    /\ PipelineIdle

CallGetNewCounties ==
    /\ pc = "start"
    /\ pc' = "returned"
    /\ returned' = get_new_counties(data_temp)
    /\ UNCHANGED <<data_temp, restOfCounties>>

NextCounties == CallGetNewCounties

SpecCounties == InitCounties /\ [][NextCounties]_vars

(***************************************************************************)
(* Properties of get_new_counties.                                         *)
(***************************************************************************)

RowsWithKeyIn(matrix, keys) == {i \in 1..Len(matrix) : matrix[i][1] \in keys}

RECURSIVE SumOver(_, _, _)
SumOver(matrix, rows, c) ==
    IF rows = {} THEN 0
    ELSE LET i == CHOOSE j \in rows : TRUE
         IN matrix[i][c] + SumOver(matrix, rows \ {i}, c)

\* The sum of column c over the rows of matrix whose key is in keys.
ColumnSum(matrix, keys, c) == SumOver(matrix, RowsWithKeyIn(matrix, keys), c)

\* Successor s has exactly one row in the result, holding the column sums
\* of its predecessors' input rows.
OneSummedRow(s) ==
    LET rows == RowsWithKeyIn(returned, {Successors[s]})
    IN /\ Cardinality(rows) = 1
       /\ \A i \in rows : \A c \in 2..Width :
              returned[i][c] = ColumnSum(data_temp, FusedInto[s], c)

MergedIntoSuccessors ==
    /\ \A s \in 1..Len(Successors) : OneSummedRow(s)
    /\ RowsWithKeyIn(returned, PredecessorKeys) = {}

HasSuccessorKey(matrix) == RowsWithKeyIn(matrix, SuccessorKeys) # {}

\* C1 as stated: for every input matrix, each of the 7 successor keys has
\* exactly one row in the result, holding in every non-key column the sum
\* over the input rows of its predecessors, and no predecessor key remains.
C1_EveryInputMerged ==
    pc = "returned" => MergedIntoSuccessors

\* C1 amended: the same, for every input matrix that holds no row under a
\* successor key already (such a row is kept beside the appended one).
C1_MergedWhenNoSuccessorInInput ==
    (pc = "returned" /\ ~HasSuccessorKey(data_temp)) => MergedIntoSuccessors

\* The scenario of the specification: one row 3159 with [15, 28].
C1_Witness ==
    /\ pc = "returned"
    /\ data_temp = GoettingenExample
    /\ \E i \in 1..Len(returned) : returned[i] = <<3159, 15, 28>>
    /\ MergedIntoSuccessors

DistinctKeys(matrix) ==
    \A i, j \in 1..Len(matrix) : matrix[i][1] = matrix[j][1] => i = j

SortedByKey(matrix) ==
    \A i \in 1..Len(matrix) - 1 : matrix[i][1] <= matrix[i + 1][1]

ReconciledShape ==
    /\ Len(returned) =
          Len(data_temp) - Cardinality(RowsWithKeyIn(data_temp, PredecessorKeys))
              + Len(Successors)
    /\ SortedByKey(returned)
    /\ DistinctKeys(returned)

\* C2 as stated: for every input with distinct region keys the result has
\* (input rows - predecessor rows + 7) rows, is sorted ascending by key and
\* holds no key twice.
C2_DistinctInputReconciled ==
    (pc = "returned" /\ DistinctKeys(data_temp)) => ReconciledShape

\* C2 amended: the same, for every input with distinct region keys none of
\* which is a successor key; the row count and the ascending order hold for
\* every input.
C2_ReconciledWhenNoSuccessorInInput ==
    pc = "returned" =>
        /\ Len(returned) =
              Len(data_temp)
                  - Cardinality(RowsWithKeyIn(data_temp, PredecessorKeys))
                  + Len(Successors)
        /\ SortedByKey(returned)
        /\ (DistinctKeys(data_temp) /\ ~HasSuccessorKey(data_temp))
               => DistinctKeys(returned)

\* A predecessor row is merged away and a county keyed above every
\* successor is moved behind the appended rows.
C2_Witness ==
    /\ pc = "returned"
    /\ Len(data_temp) = 2
    /\ data_temp[1][1] = 16077
    /\ data_temp[2][1] = 13054
    /\ Len(returned) = 8
    /\ returned[8][1] = 16077
    /\ ReconciledShape

\* The sum of column c over all rows of matrix.
TotalOf(matrix, c) == SumOver(matrix, 1..Len(matrix), c)

\* C18: for every input matrix and every non-key column, the sum of the
\* column over all rows of the result equals its sum over all input rows.
C18_ColumnSumsConserved ==
    pc = "returned" =>
        \A c \in 2..Width : TotalOf(returned, c) = TotalOf(data_temp, c)

\* Two predecessors of one successor beside nothing else: their values
\* are found, summed, in the result.
C18_Witness ==
    /\ pc = "returned"
    /\ Len(data_temp) = 2
    /\ data_temp[1][1] = 3152 /\ data_temp[2][1] = 3156
    /\ \A c \in 2..Width : data_temp[1][c] > 0 /\ data_temp[2][c] > 0
    /\ \A c \in 2..Width : TotalOf(returned, c) = data_temp[1][c] + data_temp[2][c]

(***************************************************************************)
(* check_dir and write_dataframe (getDataIntoPandasDataFrame.py:342-405)   *)
(*                                                                         *)
(* A directory is the sequence of its path components.  A file is named by *)
(* <<directory, file_prefix, ending>>.  A table is [columns, rows]; the    *)
(* cells of the column Date are timestamps [kind |-> "datetime", year,     *)
(* month, day] or strings [kind |-> "str", text], all other cells are      *)
(* integers.                                                               *)
(***************************************************************************)

\* os.path.exists(directory), for paths that name directories
Exists(filesystem, directory) == directory \in filesystem.dirs

\* The directory and every parent of it.
WithParents(directory) == {SubSeq(directory, 1, n) : n \in 0..Len(directory)}

\* os.makedirs(directory)
makedirs(filesystem, directory) ==
    [filesystem EXCEPT !.dirs = @ \cup WithParents(directory)]

\* A check_dir that creates no directory.
check_dir_creates_nothing(filesystem, directory) == filesystem

check_dir(filesystem, directory) ==
    IF ~Exists(filesystem, directory) THEN makedirs(filesystem, directory)
    ELSE filesystem

\* outForm: file_type -> file ending (line 378-381)
outForm ==
    [json |-> ".json", json_timeasstring |-> ".json", hdf5 |-> ".h5", txt |-> ".txt"]

\* The formats the message of the ValueError names (line 389).
UseFormats == <<"json", "json_timeasstring", "hdf5", "txt">>

EngEngDate == "Date"   \* dd.EngEng['date']

ColumnIndex(table, name) ==
    CHOOSE c \in 1..Len(table.columns) : table.columns[c] = name

HasColumn(table, name) == \E c \in 1..Len(table.columns) : table.columns[c] = name

\* df.Date.values
DateValues(table) ==
    [r \in 1..Len(table.rows) |-> table.rows[r][ColumnIndex(table, EngEngDate)]]

Digit == <<"0", "1", "2", "3", "4", "5", "6", "7", "8", "9">>

RECURSIVE ZeroPadded(_, _)
ZeroPadded(n, width) ==
    IF width = 0 THEN <<>>
    ELSE ZeroPadded(n \div 10, width - 1) \o <<Digit[(n % 10) + 1]>>

\* Timestamp.strftime('%Y-%m-%d')
strftime(ts) ==
    [kind |-> "str",
     text |-> ZeroPadded(ts.year, 4) \o <<"-">> \o ZeroPadded(ts.month, 2)
                 \o <<"-">> \o ZeroPadded(ts.day, 2)]

\* df.Date = df.Date.dt.strftime('%Y-%m-%d')
WithDateAsString(table) ==
    LET d == ColumnIndex(table, EngEngDate)
    IN [table EXCEPT !.rows =
           [r \in 1..Len(table.rows) |->
               [table.rows[r] EXCEPT ![d] = strftime(table.rows[r][d])]]]

\* The Date column has dtype datetime64: .dt is defined on it.
IsDatetimeColumn(table) ==
    \A r \in 1..Len(table.rows) : DateValues(table)[r].kind = "datetime"

\* to_json writes a timestamp as its epoch milliseconds, a string as it is.
JsonDate(cell) ==
    IF cell.kind = "datetime"
    THEN [kind |-> "epoch_ms", year |-> cell.year, month |-> cell.month, day |-> cell.day]
    ELSE cell

\* df.to_json(orient="records"): one record per row, column name -> value
JsonRecords(table) ==
    [r \in 1..Len(table.rows) |->
        [c \in 1..Len(table.columns) |->
            <<table.columns[c],
              IF table.columns[c] = EngEngDate THEN JsonDate(table.rows[r][c])
              ELSE table.rows[r][c]>>]]

\* What the writer of a format puts into the file.
Serialized(table, file_type, param_dict) ==
    CASE file_type \in {"json", "json_timeasstring"} ->
            [orient |-> "records", records |-> JsonRecords(table)]
      [] file_type = "hdf5" -> [key |-> "data", table |-> table]
      [] file_type = "txt" -> [to_csv |-> param_dict, table |-> table]

\* WriteFile gone wrong: an existing file is appended to.
WriteFileAppending(filesystem, path, content) ==
    IF Exists(filesystem, path[1])
    THEN [fs |-> [filesystem EXCEPT !.files =
                    (path :> IF path \in DOMAIN filesystem.files
                             THEN [kind |-> "appended", old |-> filesystem.files[path],
                                   new |-> content]
                             ELSE content) @@ @],
          raised |-> NoError]
    ELSE [fs |-> filesystem, raised |-> [type |-> "OSError", path |-> path]]

\* df.to_json / to_hdf / to_csv on out_path: the file is created or
\* overwritten when its directory exists, else the open fails.
WriteFile(filesystem, path, content) ==
    IF Exists(filesystem, path[1])
    THEN [fs |-> [filesystem EXCEPT !.files = (path :> content) @@ @],
          raised |-> NoError]
    ELSE [fs |-> filesystem, raised |-> [type |-> "OSError", path |-> path]]

\* Lines 396-398: the Date column before a json_timeasstring write.
\* [df, raised]: the table after the step, and what the step raised.
CoerceDate(table) ==
    IF ~HasColumn(table, EngEngDate) THEN [df |-> table, raised |-> NoError]
    ELSE IF Len(table.rows) = 0
    THEN [df |-> table, raised |-> [type |-> "IndexError"]]      \* values[0]
    ELSE IF DateValues(table)[1].kind = "str"
    THEN [df |-> table, raised |-> NoError]
    ELSE IF ~IsDatetimeColumn(table)
    THEN [df |-> table, raised |-> [type |-> "AttributeError"]]  \* df.Date.dt
    ELSE [df |-> WithDateAsString(table), raised |-> NoError]

\* Lines 391-403 of write_dataframe, for a format of outForm.
WriteAs(filesystem, table, directory, file_prefix, file_type, param_dict) ==
    LET out_path == <<directory, file_prefix, outForm[file_type]>>
        coerced == IF file_type = "json_timeasstring" THEN CoerceDate(table)
                   ELSE [df |-> table, raised |-> NoError]
        written == WriteFile(filesystem, out_path,
                             Serialized(coerced.df, file_type, param_dict))
    IN IF coerced.raised # NoError
       THEN [fs |-> filesystem, df |-> coerced.df, raised |-> coerced.raised]
       ELSE [fs |-> written.fs, df |-> coerced.df, raised |-> written.raised]

\* write_dataframe gone wrong: an unknown format is written as json.
write_dataframe_falls_back_to_json(filesystem, table, directory, file_prefix, file_type, param_dict) ==
    WriteAs(filesystem, table, directory, file_prefix,
            IF file_type \in DOMAIN outForm THEN file_type ELSE "json", param_dict)

\* write_dataframe: [fs, df, raised] after the call.
write_dataframe(filesystem, table, directory, file_prefix, file_type, param_dict) ==
    IF file_type \notin DOMAIN outForm
    THEN [fs |-> filesystem, df |-> table,
          raised |-> [type |-> "ValueError", file_format |-> file_type,
                      use |-> UseFormats]]
    ELSE WriteAs(filesystem, table, directory, file_prefix, file_type, param_dict)

(***************************************************************************)
(* Inputs of the writer.                                                   *)
(***************************************************************************)

Timestamp(y, m, d) == [kind |-> "datetime", year |-> y, month |-> m, day |-> d]
Str(chars) == [kind |-> "str", text |-> chars]

DateCells ==
    { Timestamp(2020, 1, 5), Timestamp(2021, 12, 31),
      Str(<<"2", "0", "2", "0", "-", "0", "1", "-", "0", "5">>),
      Str(<<"0", "5", ".", "0", "1", ".", "2", "0", "2", "0">>) }

SeqsOfLen(S, n) == [1..n -> S]

SeqsUpTo(S, n) == UNION {SeqsOfLen(S, k) : k \in 0..n}

\* Case tables with a Date column, and tables without one.
DatedTables ==
    {[columns |-> <<"Date", "Confirmed">>, rows |-> rows] :
        rows \in SeqsUpTo({<<d, v>> : d \in DateCells, v \in 0..MaxVal}, MaxRows)}

UndatedTables ==
    {[columns |-> <<"ID_County", "Population">>, rows |-> rows] :
        rows \in SeqsUpTo({<<1001, v>> : v \in 0..MaxVal}, MaxRows)}

out_folder == <<"data">>
GermanyDir == out_folder \o <<"Germany">>   \* os.path.join(out_folder, 'Germany/')

InitialDirs == {{<<>>}, {<<>>, out_folder}, {<<>>, out_folder, GermanyDir}}

FileTypes == DOMAIN outForm \cup {"xml"}

InitWriter ==
    /\ pc = "start"
    /\ CountiesIdle
    /\ PopulationIdle
    /\ DownloadIdle
    /\ LoadCsvIdle
    /\ CleanIdle
    /\ PipelineIdle
    /\ fs \in {[dirs |-> d, files |-> <<>>] : d \in InitialDirs}
    /\ df \in DatedTables \cup UndatedTables
    /\ calls = <<>>
    /\ raised = NoError

\* A caller makes sure of the directory (as getPopulationData.py:25, 204 do).
CallCheckDir ==
    /\ pc = "start"
    /\ pc' = "checked"
    /\ \E directory \in {out_folder, GermanyDir} :
          /\ calls' = Append(calls, [op |-> "check_dir", directory |-> directory,
                                     fs |-> fs])
          /\ fs' = check_dir(fs, directory)
    /\ UNCHANGED <<df, raised, restOfWriter>>

CallWriteDataframe ==
    /\ pc \in {"start", "checked"}
    /\ \E file_type \in FileTypes :
          LET done == write_dataframe(fs, df, GermanyDir, "cases", file_type,
                                      [sep |-> " "])
          IN /\ calls' = Append(calls,
                                [op |-> "write_dataframe", directory |-> GermanyDir,
                                 file_prefix |-> "cases", file_type |-> file_type,
                                 fs |-> fs, df |-> df])
             /\ fs' = done.fs
             /\ df' = done.df
             /\ raised' = done.raised
             /\ pc' = IF done.raised = NoError THEN "returned" ELSE "raised"
    /\ UNCHANGED restOfWriter

NextWriter == CallCheckDir \/ CallWriteDataframe

SpecWriter == InitWriter /\ [][NextWriter]_vars

(***************************************************************************)
(* get_age_population_data (getPopulationData.py:137-208)                  *)
(*                                                                         *)
(* The model keeps the first of the 11 age brackets: male and female each  *)
(* name one census column, and a data row is <<Key, Total, "<3 years">>.   *)
(***************************************************************************)

male == <<"M_Unter_3">>
female == <<"W_Unter_3">>
columns == <<"Key">> \o ValueColumns

\* round / np.round of num/den (num >= 0, den > 0): to the nearest integer,
\* a tie to the even one.
RoundHalfEven(num, den) ==
    LET q == num \div den
        twice == 2 * (num % den)
    IN IF twice < den THEN q
       ELSE IF twice > den THEN q + 1
       ELSE IF q % 2 = 0 THEN q ELSE q + 1

Max(S) == CHOOSE x \in S : \A y \in S : y <= x

\* Lines 153-157 for census row i: the AGS of the last reg_key row with the
\* same name and the same population (Zensus_EWZ is in thousands, kept as
\* <<numerator, denominator>>), 0 when there is none.
KeyOfCensusRow(zrow, regs) ==
    LET hits == {j \in 1..Len(regs) :
                    /\ zrow.Name = regs[j].NAME
                    /\ zrow.EWZ = RoundHalfEven(regs[j].Zensus_EWZ[1] * 1000,
                                                regs[j].Zensus_EWZ[2])}
    IN IF hits = {} THEN 0 ELSE regs[Max(hits)].AGS

FindKeys(z, regs) == [i \in 1..Len(z) |-> KeyOfCensusRow(z[i], regs)]

\* inds of np.unique(key, return_index=True): for every distinct key, in
\* ascending order of the keys, the index of its first occurrence.
UniqueInds(keys) ==
    LET firsts == SelectSeq([i \in 1..Len(keys) |-> i],
                            LAMBDA i : \A j \in 1..(i - 1) : keys[j] # keys[i])
        order == ArgSort([k \in 1..Len(firsts) |-> keys[firsts[k]]])
    IN [k \in 1..Len(order) |-> firsts[order[k]]]

\* Lines 172-176: one row per index of inds.
CensusData(z, keys, inds) ==
    [k \in 1..Len(inds) |->
        <<keys[inds[k]], z[inds[k]].EWZ>>
            \o [b \in 1..Len(male) |-> z[inds[k]][male[b]] + z[inds[k]][female[b]]]]

\* The rows of counties the loop of line 183 visits: all but the last 11.
VisitedCounties(cnts) == 1..(Len(cnts) - 11)

\* Lines 181-186 for one row of data: <<numerator, denominator>> of
\* ratio[i], 1.0 unless a visited row of counties has the key of the row.
RatioOf(row, cnts) ==
    LET hits == {j \in VisitedCounties(cnts) :
                    cnts[j].kind # "blank" /\ row[1] = cnts[j].key}
    IN IF hits = {} THEN <<1, 1>> ELSE <<cnts[Max(hits)].pop, row[2]>>

Platforms == {"x86_64", "aarch64"}

\* astype(int) of a float that is not finite: the result of the cast is
\* whatever the processor's conversion gives.
NonFiniteAsInt(build, value) ==
    CASE build = "x86_64" -> <<"int64", "min">>
      [] build = "aarch64" /\ value = "nan" -> 0
      [] build = "aarch64" /\ value = "inf" -> <<"int64", "max">>

\* np.round(v * ratio).astype(int) for ratio = r[1] / r[2]; a ratio over 0
\* is inf (nan for 0/0), and v * inf is inf (nan for v = 0).
Rescaled(v, r, build) ==
    IF r[2] = 0
    THEN NonFiniteAsInt(build, IF v = 0 \/ r[1] = 0 THEN "nan" ELSE "inf")
    ELSE RoundHalfEven(v * r[1], r[2])

\* Lines 190-198: the key copied, every other column rescaled.
CurrentData(rows, ratios, build) ==
    [i \in 1..Len(rows) |->
        [c \in 1..Len(rows[i]) |->
            IF c = 1 THEN rows[i][1] ELSE Rescaled(rows[i][c], ratios[i], build)]]

DataFrame(rows) == [columns |-> columns, rows |-> rows]

(***************************************************************************)
(* Inputs of get_age_population_data.                                      *)
(***************************************************************************)

\* The region-key table: Hamburg is listed as state and as county.
RegKeyTable ==
    << [NAME |-> "Hamburg", Zensus_EWZ |-> <<2, 1000>>, AGS |-> 2],
       [NAME |-> "Hamburg", Zensus_EWZ |-> <<2, 1000>>, AGS |-> 2000],
       [NAME |-> "Goettingen", Zensus_EWZ |-> <<2, 1000>>, AGS |-> 3152],
       [NAME |-> "Osterode am Harz", Zensus_EWZ |-> <<2001, 2000000>>, AGS |-> 3156] >>

CensusRows ==
    {[Name |-> n, EWZ |-> e, M_Unter_3 |-> a[1], W_Unter_3 |-> a[2]] :
        n \in {"Hamburg", "Goettingen", "Osterode am Harz"},
        e \in {1, 2},
        a \in {<<0, 1>>, <<1, 1>>}}

County(k, p) == [kind |-> "county", key |-> k, pop |-> p]
BlankLine == [kind |-> "blank", key |-> 0, pop |-> 0]
Footnote == [kind |-> "footnote", key |-> 0, pop |-> 0]

\* The current-population sheet ends with 11 lines of footnotes.
Footnotes == [i \in 1..11 |-> Footnote]

CountiesTables ==
    { Footnotes,
      <<County(2000, 3)>> \o Footnotes,
      <<County(3159, 1), BlankLine>> \o Footnotes,
      <<County(3159, 5), County(2000, 1)>> \o Footnotes }

InitPopulation ==
    /\ pc = "start"
    /\ CountiesIdle
    /\ DownloadIdle
    /\ LoadCsvIdle
    /\ CleanIdle
    /\ PipelineIdle
    /\ zensus \in SeqsUpTo(CensusRows, MaxRows)
    /\ reg_key = RegKeyTable
    /\ counties \in CountiesTables
    /\ out_form \in {"json", "hdf5"}
    /\ platform \in Platforms
    /\ key = <<>> /\ data = <<>> /\ ratio = <<>> /\ data_current = <<>>
    /\ fs = EmptyFS
    /\ df = NoTable
    /\ calls = <<>>
    /\ raised = NoError

WriteCall(table, file_prefix, filesystem) ==
    [op |-> "write_dataframe", directory |-> GermanyDir, file_prefix |-> file_prefix,
     file_type |-> out_form, fs |-> filesystem, df |-> table]

\* The three tables are read from these addresses, whatever read_data is.
RemoteTables == {"path_counties", "path_reg_key", "path_zensus"}

\* The whole of get_age_population_data.  (A value bound by \E over a
\* one-element set is computed once.)
CallGetAgePopulationData ==
    /\ pc = "start"
    /\ \E keys \in {FindKeys(zensus, reg_key)} :
       \E merged \in {get_new_counties(CensusData(zensus, keys, UniqueInds(keys)))} :
       \E ratios \in {[i \in 1..Len(merged) |-> RatioOf(merged[i], counties)]} :
       \E current \in {CurrentData(merged, ratios, platform)} :
       \E checked \in {check_dir(fs, GermanyDir)} :
       \E first \in {write_dataframe(checked, DataFrame(merged), GermanyDir,
                                     "county_population", out_form, <<>>)} :
       \E second \in {write_dataframe(first.fs, DataFrame(current), GermanyDir,
                                      "county_current_population", out_form, <<>>)} :
          /\ key' = keys
          /\ data' = merged
          /\ ratio' = ratios
          /\ data_current' = current
          /\ IF first.raised # NoError
             THEN /\ fs' = first.fs
                  /\ raised' = first.raised
                  /\ calls' = calls \o
                        << [op |-> "check_dir", directory |-> GermanyDir, fs |-> fs],
                           WriteCall(DataFrame(merged), "county_population", checked) >>
             ELSE /\ fs' = second.fs
                  /\ raised' = second.raised
                  /\ calls' = calls \o
                        << [op |-> "check_dir", directory |-> GermanyDir, fs |-> fs],
                           WriteCall(DataFrame(merged), "county_population", checked),
                           WriteCall(DataFrame(current), "county_current_population",
                                     first.fs) >>
          /\ runs' = Append(runs, fs')
          /\ pc' = IF first.raised = NoError /\ second.raised = NoError
                   THEN "returned" ELSE "raised"
    /\ fetched' = RemoteTables
    /\ UNCHANGED <<popInputs, restOfPopulation>>

NextPopulation == CallGetAgePopulationData

SpecPopulation == InitPopulation /\ [][NextPopulation]_vars

(***************************************************************************)
(* download_file (getDataIntoPandasDataFrame.py:46-87)                     *)
(*                                                                         *)
(* A response has a status, headers (a set of <<name, value>>, the value   *)
(* a sequence of characters), a body (the bytes iter_content hands out,    *)
(* content-encoding undone) and raw_len bytes on the connection, which is  *)
(* what a content-length header states.  With content-encoding "identity"  *)
(* the body is the raw bytes; with "gzip" a read of raw bytes hands out    *)
(* any number of body bytes.                                               *)
(***************************************************************************)

Min(a, b) == IF a <= b THEN a ELSE b

HasHeader(headers, name) == \E h \in headers : h[1] = name
\* req.headers.get(name), for a header that is there
HeaderValue(headers, name) == (CHOOSE h \in headers : h[1] = name)[2]

DigitValue(ch) == CHOOSE d \in 0..9 : Digit[d + 1] = ch

\* int(text) for a text of decimal digits
RECURSIVE ParseInt(_)
ParseInt(text) ==
    IF text = <<>> THEN 0
    ELSE ParseInt(SubSeq(text, 1, Len(text) - 1)) * 10 + DigitValue(text[Len(text)])

\* A status check that lets the 4xx statuses through.
StatusRaisesOnServerErrorOnly(status_code) == status_code >= 500

\* Line 63: the statuses download_file raises HTTPError for.
StatusRaises(status_code) == status_code # 200

\* Line 78: progress = min(progress+chunk_size, file_size)
NextProgress(done, size, total) == Min(done + size, total)

Alphabet == <<"a", "b", "c", "d", "e", "f", "g", "h">>

\* str(file, encoding=encoding) for bytes 97, 98, ...: the letters a, b, ...
Decoded(bytes) == [i \in 1..Len(bytes) |-> Alphabet[bytes[i] - 96]]

\* The values of encoding that name a codec; "None" stands for None and
\* "1024" for the int 1024.
Codecs == {"utf-8", "latin-1"}

\* Lines 84-87.
Buffer(bytes, codec) ==
    IF codec # "None" THEN [type |-> "StringIO", value |-> Decoded(bytes)]
    ELSE [type |-> "BytesIO", value |-> bytes]

\* The numbers of raw bytes one step of iter_content may read: chunk_size
\* of them (fewer at the end), or, with chunk_size None, what has arrived.
RawReads(size, left) ==
    IF size.none THEN 1..left ELSE {Min(size.value, left)}

\* The chunks a read of n raw bytes may hand out (<<>>: nothing is yielded).
ChunksOf(n, left, body, content_encoding) ==
    IF n = left THEN {body}
    ELSE IF content_encoding = "identity" THEN {SubSeq(body, 1, n)}
    ELSE {SubSeq(body, 1, k) : k \in 0..Len(body)}

(***************************************************************************)
(* Inputs of download_file.                                                *)
(***************************************************************************)

RECURSIVE ToDigits(_)
ToDigits(n) ==
    IF n < 10 THEN <<Digit[n + 1]>>
    ELSE ToDigits(n \div 10) \o <<Digit[(n % 10) + 1]>>

\* A body of n bytes: 97, 98, ...
Body(n) == [i \in 1..n |-> 96 + i]

\* The content-length header of a response of n raw bytes.
ContentLength(n) == <<"content-length", ToDigits(n)>>

Responses ==
    {[status_code |-> s, content_encoding |-> "identity", body |-> Body(n),
      raw_len |-> n,
      headers |-> IF stated THEN {ContentLength(n)} ELSE {}] :
        s \in {200, 206, 404, 500}, n \in 0..MaxBody, stated \in BOOLEAN}
    \cup
    {[status_code |-> 200, content_encoding |-> "gzip", body |-> Body(n),
      raw_len |-> r,
      headers |-> {ContentLength(r), <<"content-encoding", <<"g", "z", "i", "p">>>>}] :
        n \in 0..MaxBody, r \in 1..MaxBody}

InitDownload ==
    /\ pc = "start"
    /\ CountiesIdle
    /\ PopulationIdle
    /\ WriterIdle
    /\ LoadCsvIdle
    /\ CleanIdle
    /\ PipelineIdle
    /\ response \in Responses
    /\ chunk_size \in {NoneInt} \cup {SomeInt(n) : n \in 1..MaxChunk}
    /\ progress_function \in BOOLEAN
    /\ encoding \in {"None", "utf-8"}
    /\ file_size = 0 /\ file = <<>> /\ progress = 0 /\ reported = <<>>
    /\ chunks = <<>> /\ raw_left = 0 /\ body_left = <<>> /\ result = NoBuffer

\* Lines 62-74: the request, the status check, the content-length, and the
\* call of iter_content that opens the loop.
SendRequest ==
    /\ pc = "start"
    /\ IF response = NoResponse       \* requests.get: the host does not answer
       THEN /\ raised' = [type |-> "ConnectionError"]
            /\ pc' = "raised"
            /\ UNCHANGED <<file_size, raw_left, body_left>>
       ELSE IF StatusRaises(response.status_code)
       THEN /\ raised' = [type |-> "HTTPError", status_code |-> response.status_code]
            /\ pc' = "raised"
            /\ UNCHANGED <<file_size, raw_left, body_left>>
       ELSE IF ~HasHeader(response.headers, "content-length")
       THEN /\ raised' = [type |-> "TypeError", of |-> "int(None)"]
            /\ pc' = "raised"
            /\ UNCHANGED <<file_size, raw_left, body_left>>
       ELSE IF progress_function /\ IsStr(chunk_size)   \* line 74: iter_content
       THEN /\ raised' = [type |-> "TypeError", of |-> "iter_content(chunk_size=str)"]
            /\ pc' = "raised"
            /\ file_size' = ParseInt(HeaderValue(response.headers, "content-length"))
            /\ UNCHANGED <<raw_left, body_left>>
       ELSE /\ file_size' = ParseInt(HeaderValue(response.headers, "content-length"))
            /\ raw_left' = response.raw_len
            /\ body_left' = response.body
            /\ pc' = IF progress_function THEN "progress_loop" ELSE "plain_loop"
            /\ UNCHANGED raised
    /\ UNCHANGED <<dlInputs, file, progress, reported, chunks, result, restOfDownload>>

\* Lines 74-79: one step of iter_content(chunk_size=chunk_size) and, when
\* it yields a chunk, the loop body.
ReadChunkWithProgress ==
    /\ pc = "progress_loop"
    /\ raw_left > 0
    /\ \E n \in RawReads(chunk_size, raw_left) :
       \E chunk \in ChunksOf(n, raw_left, body_left, response.content_encoding) :
          /\ raw_left' = raw_left - n
          /\ body_left' = SubSeq(body_left, Len(chunk) + 1, Len(body_left))
          /\ IF chunk = <<>>
             THEN UNCHANGED <<pc, raised, file, progress, reported, chunks>>
             ELSE /\ chunks' = Append(chunks, chunk)
                  /\ file' = file \o chunk
                  /\ IF chunk_size.none
                     THEN /\ raised' = [type |-> "TypeError", of |-> "progress+None"]
                          /\ pc' = "raised"
                          /\ UNCHANGED <<progress, reported>>
                     ELSE /\ progress' = NextProgress(progress, chunk_size.value, file_size)
                          /\ reported' = Append(reported, <<progress', file_size>>)
                          /\ UNCHANGED <<pc, raised>>
    /\ UNCHANGED <<dlInputs, file_size, result, restOfDownload>>

\* Lines 81-82: one step of iter_content(chunk_size=None).
ReadChunk ==
    /\ pc = "plain_loop"
    /\ raw_left > 0
    /\ \E n \in RawReads(NoneInt, raw_left) :
       \E chunk \in ChunksOf(n, raw_left, body_left, response.content_encoding) :
          /\ raw_left' = raw_left - n
          /\ body_left' = SubSeq(body_left, Len(chunk) + 1, Len(body_left))
          /\ IF chunk = <<>>
             THEN UNCHANGED <<file, chunks>>
             ELSE /\ chunks' = Append(chunks, chunk)
                  /\ file' = file \o chunk
    /\ UNCHANGED <<pc, raised, dlInputs, file_size, progress, reported, result,
                   restOfDownload>>

\* Lines 84-87: the loop is over, the buffer is returned.
ReturnFile ==
    /\ pc \in {"progress_loop", "plain_loop"}
    /\ raw_left = 0
    /\ IF encoding # "None" /\ encoding \notin Codecs
       THEN /\ raised' = [type |-> "TypeError", of |-> "str(file, encoding=int)"]
            /\ pc' = "raised"
            /\ UNCHANGED result
       ELSE /\ result' = Buffer(file, encoding)
            /\ pc' = "returned"
            /\ UNCHANGED raised
    /\ UNCHANGED <<dlInputs, file_size, file, progress, reported, chunks,
                   raw_left, body_left, restOfDownload>>

NextDownload == SendRequest \/ ReadChunkWithProgress \/ ReadChunk \/ ReturnFile

SpecDownload == InitDownload /\ [][NextDownload]_vars

(***************************************************************************)
(* loadCsv (getDataIntoPandasDataFrame.py:124-161)                         *)
(*                                                                         *)
(* A dict is a function from its keys.  The default of param_dict is one   *)
(* dict object, made when the function is defined and handed to every call *)
(* that passes no param_dict.  The table read_csv returns is kept as what  *)
(* it was read from and the options it was read with.                      *)
(***************************************************************************)

apiUrl == "https://opendata.arcgis.com/datasets/"
extension == ".csv"
\* url = apiUrl + targetFileName + extension
UrlOf(targetFileName) == <<apiUrl, targetFileName, extension>>

\* Line 144.
param_dict_default(enc) ==
    [sep |-> ",", header |-> 0, encoding |-> enc, dtype |-> "None"]

\* Lines 146-148: the defaults are written into the dict for the keys it lacks.
FilledIn(dict, defaults) ==
    [k \in DOMAIN dict \cup DOMAIN defaults |->
        IF k \in DOMAIN dict THEN dict[k] ELSE defaults[k]]

\* What the call of line 153 hands download_file as chunk_size: param_dict["encoding"].
AsChunkSize(enc) == IF enc = "None" THEN NoneInt ELSE StrForInt(enc)

\* requests.exceptions.RequestException and the subclasses raised here.
RequestExceptions == {"HTTPError", "ConnectionError"}

\* pd.read_csv of a payload read with the options given.
ReadCsv(source, payload, options) ==
    IF payload = <<>>
    THEN [df |-> NoCsv, raised |-> [type |-> "EmptyDataError"]]
    ELSE [df |-> [source |-> source, payload |-> payload, options |-> options],
          raised |-> NoError]

\* pd.read_csv(url, **param_dict): urlopen raises URLError, an OSError, when
\* the host does not answer or answers 4xx/5xx.
ReadCsvFromUrl(resp, options) ==
    IF resp = NoResponse \/ resp.status_code >= 400
    THEN [df |-> NoCsv, raised |-> [type |-> "OSError"]]
    ELSE ReadCsv("url", resp.body, options)

\* Lines 158-159: OSError becomes FileNotFoundError naming the url.
NotFound(error, url) ==
    IF error.type = "OSError"
    THEN [type |-> "FileNotFoundError", url |-> url]
    ELSE error

(***************************************************************************)
(* Inputs of loadCsv.                                                      *)
(***************************************************************************)

CallerDicts ==
    { EmptyDict, [sep |-> ";"], [encoding |-> "latin-1"],
      [sep |-> ";", header |-> 1, encoding |-> "latin-1", dtype |-> "str"] }

InitLoadCsv ==
    /\ pc = "caller"
    /\ CountiesIdle
    /\ PopulationIdle
    /\ WriterIdle
    /\ DownloadIdle
    /\ LoadCsvIdle
    /\ CleanIdle
    /\ PipelineIdle

\* Lines 143-153: the defaults are filled in and download_file is called
\* with (url, 1024, param_dict["encoding"], None, p.set_progress), that is
\* encoding=1024 and chunk_size=param_dict["encoding"].
LoadCsvCalled(targetFileName, supplied, passed, enc, resp) ==
    /\ \E merged \in {FilledIn(IF supplied THEN passed ELSE default_dict,
                                param_dict_default(enc))} :
          /\ lc_args' = [targetFileName |-> targetFileName, supplied |-> supplied,
                         param_dict |-> passed, encoding |-> enc]
          /\ default_dict' = IF supplied THEN default_dict ELSE merged
          /\ caller_dict' = IF supplied THEN merged ELSE EmptyDict
          /\ csv_options' = merged
          /\ chunk_size' = AsChunkSize(merged["encoding"])
    /\ response' = resp
    /\ encoding' = "1024"
    /\ progress_function' = TRUE
    /\ file_size' = 0 /\ file' = <<>> /\ progress' = 0 /\ reported' = <<>>
    /\ chunks' = <<>> /\ raw_left' = 0 /\ body_left' = <<>> /\ result' = NoBuffer
    /\ raised' = NoError
    /\ df_csv' = NoCsv
    /\ pc' = "start"
    /\ lc_pc' = "fetching"
    /\ ncalls' = ncalls + 1

\* A caller of loadCsv: any arguments, any answer of the server.
CallLoadCsv ==
    /\ lc_pc \in {"idle", "returned", "raised"}
    /\ ncalls < MaxCalls
    /\ \E supplied \in BOOLEAN, passed \in CallerDicts, enc \in {"None", "utf-8"},
          resp \in Responses \cup {NoResponse} :
          /\ supplied \/ passed = EmptyDict
          /\ LoadCsvCalled("x", supplied, passed, enc, resp)
    /\ UNCHANGED restOfLoadCsv

\* Lines 154-161: download_file is over.
FinishLoadCsv ==
    /\ lc_pc = "fetching"
    /\ pc \in {"returned", "raised"}
    /\ \E read \in { IF pc = "returned"
                      THEN ReadCsv("payload", result.value, csv_options)
                      ELSE IF raised.type \in RequestExceptions
                      THEN ReadCsvFromUrl(response, csv_options)
                      ELSE [df |-> NoCsv, raised |-> raised] } :
          /\ df_csv' = read.df
          /\ raised' = NotFound(read.raised, UrlOf(lc_args.targetFileName))
          /\ lc_pc' = IF read.raised = NoError THEN "returned" ELSE "raised"
    /\ UNCHANGED <<pc, dlVars, lc_args, default_dict, caller_dict, csv_options,
                   ncalls, restOfLoadCsv>>

NextLoadCsv ==
    CallLoadCsv \/ SendRequest \/ ReadChunkWithProgress \/ ReturnFile \/ FinishLoadCsv

SpecLoadCsv == InitLoadCsv /\ [][NextLoadCsv]_vars

(***************************************************************************)
(* clean_data (cleanData.py:17-177)                                        *)
(*                                                                         *)
(* The entries of a directory are its files and its subdirectories.  The   *)
(* name of a file <<directory, file_prefix, ending>> is file_prefix +      *)
(* ending; names are spelled out where the code looks into them.           *)
(***************************************************************************)

\* The characters of the names of this model.
Chars ==
    (  "cases" :> <<"c", "a", "s", "e", "s">> @@
       "county_population" :> <<"c", "o", "u", "n", "t", "y", "_", "p", "o", "p", "u", "l", "a", "t", "i", "o", "n">> @@
       "county_current_population" :> <<"c", "o", "u", "n", "t", "y", "_", "c", "u", "r", "r", "e", "n", "t", "_", "p", "o", "p", "u", "l", "a", "t", "i", "o", "n">> @@
       "FullDataB" :> <<"F", "u", "l", "l", "D", "a", "t", "a", "B">> @@
       "PopulStates" :> <<"P", "o", "p", "u", "l", "S", "t", "a", "t", "e", "s">> @@
       "123_rki" :> <<"1", "2", "3", "_", "r", "k", "i">> @@
       "other" :> <<"o", "t", "h", "e", "r">> @@
       "all_jh" :> <<"a", "l", "l", "_", "j", "h">> @@
       "spain_all" :> <<"s", "p", "a", "i", "n", "_", "a", "l", "l">> @@
       "JohnHopkins" :> <<"J", "o", "h", "n", "H", "o", "p", "k", "i", "n", "s">> @@
       "RKI_json" :> <<"R", "K", "I", "_", "j", "s", "o", "n">> @@
       "data" :> <<"d", "a", "t", "a">> @@
       "Germany" :> <<"G", "e", "r", "m", "a", "n", "y">> @@
       "Spain" :> <<"S", "p", "a", "i", "n">> @@
       "France" :> <<"F", "r", "a", "n", "c", "e">> @@
       "Italy" :> <<"I", "t", "a", "l", "y">> @@
       "US" :> <<"U", "S">> @@
       "SouthKorea" :> <<"S", "o", "u", "t", "h", "K", "o", "r", "e", "a">> @@
       "China" :> <<"C", "h", "i", "n", "a">> @@
       ".json" :> <<".", "j", "s", "o", "n">> @@
       ".h5" :> <<".", "h", "5">> @@
       ".txt" :> <<".", "t", "x", "t">> @@
       "json" :> <<"j", "s", "o", "n">> @@
       "h5" :> <<"h", "5">> @@
       "_rki" :> <<"_", "r", "k", "i">> @@
       "RKI" :> <<"R", "K", "I">> @@
       "Popul" :> <<"P", "o", "p", "u", "l">> @@
       "FullDataL" :> <<"F", "u", "l", "l", "D", "a", "t", "a", "L">> @@
       "spain" :> <<"s", "p", "a", "i", "n">> @@
       "_jh" :> <<"_", "j", "h">> )

\* text.endswith(suffix)
EndsWith(text, suffix) ==
    /\ Len(text) >= Len(suffix)
    /\ SubSeq(text, Len(text) - Len(suffix) + 1, Len(text)) = suffix

\* pattern in text
Contains(text, pattern) ==
    \E i \in 1..(Len(text) - Len(pattern) + 1) :
        SubSeq(text, i, i + Len(pattern) - 1) = pattern

\* Lines 30-32.
EndingOf(hdf5) == IF hdf5 THEN "h5" ELSE "json"

\* The tests of lines 49, 68, 82-83, 99-100, 116, 140, 159-160: whether the
\* entry named item is deleted for the family.
Deletes(item, family, ending) ==
    LET has(pattern) == Contains(item, Chars[pattern])
        ends == EndsWith(item, Chars[ending])
    IN CASE family = "all" -> EndsWith(item, Chars[".json"]) \/ EndsWith(item, Chars[".h5"])
         [] family = "rki" -> ends /\ (has("_rki") \/ has("RKI"))
         [] family = "population" ->
                ends /\ (has("Popul") \/ has("FullDataB") \/ has("FullDataL"))
         [] family = "spain" -> ends /\ has("spain")
         [] family = "jh" -> ends /\ has("_jh")
         [] family = "jh_root" -> ends /\ (has("_jh") \/ has("JohnHopkins"))

\* Lines 37, 130.
directories == <<"Germany", "Spain", "France", "Italy", "US", "SouthKorea", "China">>

\* One visit of a directory: the family deleted there, and whether rmdir follows.
Visit(directory, family, rmdir) ==
    [directory |-> directory, family |-> family, rmdir |-> rmdir]

\* The visits of clean_data, in the order of the code.
Visits(args) ==
    LET countries(family) ==
            [i \in 1..Len(directories) |->
                Visit(args.out_path \o <<directories[i]>>, family, TRUE)]
        when(flag, visits) == IF flag THEN visits ELSE <<>>
    IN IF args.all_data
       THEN countries("all") \o <<Visit(args.out_path, "all", FALSE)>>
       ELSE when(args.rki, <<Visit(args.out_path \o <<"Germany">>, "rki", TRUE)>>)
            \o when(args.population,
                    <<Visit(args.out_path \o <<"Germany">>, "population", TRUE)>>)
            \o when(args.spain, <<Visit(args.out_path \o <<"Spain">>, "spain", TRUE)>>)
            \o when(args.john_hopkins,
                    countries("jh") \o <<Visit(args.out_path, "jh_root", FALSE)>>)

\* Line 174.
UsageHint == [print |-> "Please specify what should be deleted. See --help for details."]

FileName(path) == Chars[path[2]] \o Chars[path[3]]
FilesIn(filesystem, directory) == {f \in DOMAIN filesystem.files : f[1] = directory}
SubdirsOf(filesystem, directory) ==
    {d \in filesystem.dirs :
        Len(d) = Len(directory) + 1 /\ SubSeq(d, 1, Len(directory)) = directory}

\* os.remove of every file of the set.
Removed(filesystem, gone) ==
    [filesystem EXCEPT
        !.files = [f \in DOMAIN filesystem.files \ gone |-> filesystem.files[f]]]

\* os.rmdir(directory): done when the directory has no entry left.
CanRmdir(filesystem, directory) ==
    /\ FilesIn(filesystem, directory) = {}
    /\ SubdirsOf(filesystem, directory) = {}

(***************************************************************************)
(* Inputs of clean_data.                                                   *)
(***************************************************************************)

SpainDir == out_folder \o <<"Spain">>
USDir == out_folder \o <<"US">>

\* Files that may lie under out_path before the call.
CandidateFiles ==
    { <<GermanyDir, "123_rki", ".json">>, <<GermanyDir, "other", ".json">>,
      <<GermanyDir, "FullDataB", ".json">>, <<GermanyDir, "PopulStates", ".h5">>,
      <<GermanyDir, "county_population", ".json">>, <<GermanyDir, "all_jh", ".json">>,
      <<SpainDir, "spain_all", ".json">>, <<SpainDir, "other", ".h5">>,
      <<USDir, "all_jh", ".h5">>,
      <<out_folder, "JohnHopkins", ".json">>, <<out_folder, "other", ".txt">> }

\* Directories that may exist beside the ones the files lie in; RKI_json
\* is a directory whose name passes the test of the rki family.
ExtraDirs ==
    { {}, {GermanyDir}, {SpainDir}, {GermanyDir, GermanyDir \o <<"RKI_json">>} }

StaleContent == [kind |-> "stale"]

TreeOf(paths, extra) ==
    [dirs |-> UNION ({WithParents(f[1]) : f \in paths}
                     \cup {WithParents(d) : d \in extra} \cup {{<<>>}}),
     files |-> [f \in paths |-> StaleContent]]

Trees ==
    {TreeOf(paths, extra) :
        paths \in {S \in SUBSET CandidateFiles : Cardinality(S) <= MaxFiles},
        extra \in ExtraDirs}

CleanArgs ==
    [all_data : BOOLEAN, rki : BOOLEAN, john_hopkins : BOOLEAN, spain : BOOLEAN,
     population : BOOLEAN, hdf5 : BOOLEAN, out_path : {out_folder}]

InitClean ==
    /\ pc = "start"
    /\ CountiesIdle
    /\ PopulationIdle
    /\ DownloadIdle
    /\ LoadCsvIdle
    /\ CleanIdle
    /\ PipelineIdle
    /\ fs \in Trees
    /\ df = NoTable
    /\ calls = <<>>
    /\ raised = NoError

\* Lines 30-35, 73, 173-174: the branch taken.
BeginClean(args) ==
    /\ calls' = Append(calls, [op |-> "clean_data", args |-> args, fs |-> fs])
    /\ todo' = Visits(args)
    /\ printed' = IF args.all_data \/ args.rki \/ args.john_hopkins \/ args.spain
                      \/ args.population
                   THEN {} ELSE {UsageHint}
    /\ raised' = NoError
    /\ pc' = "cleaning"
    /\ UNCHANGED <<fs, restOfClean>>

CallCleanData ==
    /\ pc = "start"
    /\ \E args \in CleanArgs : BeginClean(args)

\* One visit: listdir, the removals, rmdir (lines 40-57, 63-71, 76-93, ...).
\* os.listdir lists in no promised order; os.remove of an entry that is a
\* directory raises, with any of the files to delete already deleted.
CleanDirectory ==
    /\ pc = "cleaning"
    /\ todo # <<>>
    /\ LET visit == Head(todo)
           ending == EndingOf(call.args.hdf5)
           files == {f \in FilesIn(fs, visit.directory) :
                        Deletes(FileName(f), visit.family, ending)}
           dirs == {d \in SubdirsOf(fs, visit.directory) :
                        Deletes(Chars[d[Len(d)]], visit.family, ending)}
           cleared == Removed(fs, files)
           emptied == visit.rmdir /\ CanRmdir(cleared, visit.directory)
       IN IF ~Exists(fs, visit.directory)
          THEN /\ todo' = Tail(todo)
               /\ UNCHANGED <<pc, fs, raised, printed>>
          ELSE \/ /\ dirs = {}
                  /\ fs' = IF emptied
                            THEN [cleared EXCEPT !.dirs = @ \ {visit.directory}]
                            ELSE cleared
                  /\ printed' = printed \cup {[print |-> "Deleting file ", file |-> f] : f \in files}
                                   \cup (IF emptied
                                         THEN {[print |-> "Deleting directory ", directory |-> visit.directory]}
                                         ELSE {})
                  /\ todo' = Tail(todo)
                  /\ UNCHANGED <<pc, raised>>
               \/ /\ dirs # {}
                  /\ \E before \in SUBSET files :
                        /\ fs' = Removed(fs, before)
                        /\ printed' = printed
                                         \cup {[print |-> "Deleting file ", file |-> f] : f \in before}
                                         \cup {[print |-> "Deleting file ", entry |-> d] : d \in dirs}
                  /\ raised' = [type |-> "IsADirectoryError"]
                  /\ pc' = "raised"
                  /\ UNCHANGED todo
    /\ UNCHANGED <<calls, restOfClean>>

\* Every visit is done.
ReturnFromClean ==
    /\ pc = "cleaning"
    /\ todo = <<>>
    /\ pc' = "returned"
    /\ UNCHANGED <<fs, calls, raised, cdVars, restOfClean>>

NextClean == CallCleanData \/ CleanDirectory \/ ReturnFromClean

SpecClean == InitClean /\ [][NextClean]_vars

(***************************************************************************)
(* get_population_data and get_one_data_set (getPopulationData.py:10-61),  *)
(* and the population tools run, run again and followed by clean_data.     *)
(***************************************************************************)

MaxRuns == 2

\* Line 17: the data set of get_population_data.
d1 ==
    [filename |-> "FullDataB", item |-> "5dc2fc92850241c3be3d704aa0945d9c_2",
     columns_wanted |-> <<"LAN_ew_RS", "LAN_ew_GEN", "LAN_ew_EWZ">>,
     filename_out |-> "PopulStates"]

\* dd.GerEng for the columns of d1 (defaultDict.py).  DataFrame.rename keeps
\* a name that has no entry.
GerEng == ("LAN_ew_GEN" :> "State") @@ ("LAN_ew_EWZ" :> "Population")

\* Line 34: file = os.path.join(directory, d.filename + ".json")
CacheFile == <<GermanyDir, d1.filename, ".json">>

\* The table pd.read_csv returns (header=0): the first byte of the payload
\* of this model stands for the header line, each further byte for one line
\* of data, whose cells all hold the byte.
TableOfCsv(csv) ==
    LET header == <<"OBJECTID", "LAN_ew_RS", "LAN_ew_GEN", "LAN_ew_EWZ">>
    IN [columns |-> header,
        rows |-> [r \in 1..(Len(csv.payload) - 1) |->
                    [c \in 1..Len(header) |-> csv.payload[r + 1]]]]

\* pandas.read_json of a file of records: the columns are the keys of the
\* records, in their order; no record, no column.
read_json(content) ==
    IF content.records = <<>> THEN NoTable
    ELSE [columns |-> [c \in 1..Len(content.records[1]) |-> content.records[1][c][1]],
          rows |-> [r \in 1..Len(content.records) |->
                      [c \in 1..Len(content.records[r]) |-> content.records[r][c][2]]]]

\* Lines 59-60: dfo = df[d.columns_wanted].rename(columns=dd.GerEng)
Filtered(table, wanted) ==
    LET renamed(name) == IF name \in DOMAIN GerEng THEN GerEng[name] ELSE name
    IN [columns |-> [i \in 1..Len(wanted) |-> renamed(wanted[i])],
        rows |-> [r \in 1..Len(table.rows) |->
                    [i \in 1..Len(wanted) |->
                        table.rows[r][ColumnIndex(table, wanted[i])]]]]

WriteCallAs(table, file_prefix, file_type, filesystem) ==
    [op |-> "write_dataframe", directory |-> GermanyDir, file_prefix |-> file_prefix,
     file_type |-> file_type, fs |-> filesystem, df |-> table]

\* Lines 55-61: [fs, raised, calls] once the table is there.
FilterAndWrite(filesystem, table) ==
    IF \E i \in 1..Len(d1.columns_wanted) : ~HasColumn(table, d1.columns_wanted[i])
    THEN [fs |-> filesystem, raised |-> [type |-> "KeyError"], calls |-> <<>>]
    ELSE LET dfo == Filtered(table, d1.columns_wanted)
             written == write_dataframe(filesystem, dfo, GermanyDir, d1.filename_out,
                                        out_form, <<>>)
         IN [fs |-> written.fs, raised |-> written.raised,
             calls |-> <<WriteCallAs(dfo, d1.filename_out, out_form, filesystem)>>]

\* Line 14.
Warning ==
    [print |-> "Warning: getpopulationdata is not working correctly. A bug workaround has been applied."]
\* Line 40.
exit_string ==
    [print |-> "Error: The file does not exist. Call program without -r flag to get it.",
     file |-> CacheFile]

\* Line 37: what pandas.read_json(file) can give on the file system.  Of a
\* path that is no file: ValueError from the pandas releases that take the
\* string for the document itself, FileNotFoundError from those that check
\* the path.  Of a file that holds no JSON: ValueError.
CacheRead(filesystem) ==
    IF CacheFile \notin DOMAIN filesystem.files
    THEN {[df |-> NoTable, error |-> e] : e \in {"ValueError", "FileNotFoundError"}}
    ELSE IF "orient" \notin DOMAIN filesystem.files[CacheFile]
    THEN {[df |-> NoTable, error |-> "ValueError"]}
    ELSE {[df |-> read_json(filesystem.files[CacheFile]), error |-> "none"]}

(***************************************************************************)
(* Inputs of the population tools.                                         *)
(***************************************************************************)

OtherFile == <<GermanyDir, "cases", ".json">>

\* What out_folder holds before the first run: nothing, a file of another
\* tool, the cache of an earlier download, a cache with the columns of
\* another data set, a cache that is no JSON.
InitialTrees ==
    LET with(files) == [dirs |-> WithParents(GermanyDir), files |-> files]
        earlier == TableOfCsv([payload |-> Body(3)])
        other == [columns |-> <<"OBJECTID", "RS", "GEN", "EWZ">>,
                  rows |-> << <<1, 1, 1, 5>> >>]
    IN { EmptyFS,
         with(OtherFile :> StaleContent),
         with((CacheFile :> Serialized(earlier, "json", <<>>))
              @@ (OtherFile :> StaleContent)),
         with(CacheFile :> Serialized(other, "json", <<>>)),
         with(CacheFile :> StaleContent) }

InitPipeline ==
    /\ CountiesIdle
    /\ DownloadIdle
    /\ LoadCsvIdle
    /\ CleanIdle
    /\ tool \in {"get_population_data", "get_age_population_data"}
    /\ read_data \in BOOLEAN
    /\ out_form \in DOMAIN outForm
    /\ fs \in InitialTrees
    /\ IF tool = "get_age_population_data"
       THEN /\ pc = "start" /\ run_pc = "idle"
            /\ remote = NoResponse
            /\ zensus \in SeqsUpTo(CensusRows, 1)
            /\ reg_key = RegKeyTable
            /\ counties \in CountiesTables
            /\ platform \in Platforms
       ELSE /\ pc = "caller" /\ run_pc = "start"
            /\ remote \in Responses \cup {NoResponse}
            /\ zensus = <<>> /\ reg_key = <<>> /\ counties = <<>>
            /\ platform = "x86_64"
    /\ key = <<>> /\ data = <<>> /\ ratio = <<>> /\ data_current = <<>>
    /\ fetched = {} /\ runs = <<>>
    /\ df = NoTable
    /\ calls = <<>>
    /\ raised = NoError

\* Line 26: the call of check_dir, as recorded in calls.
CheckDirCall == [op |-> "check_dir", directory |-> GermanyDir, fs |-> fs]

\* get_population_data up to the call of loadCsv, or to its end when
\* read_data is set: lines 14-26, then 32-40 and 55-61, or 44-50.
CallGetPopulationData ==
    /\ tool = "get_population_data"
    /\ run_pc = "start"
    /\ IF read_data
       THEN /\ \E checked \in {check_dir(fs, GermanyDir)} :
               \E read \in CacheRead(checked) :
               \E done \in {FilterAndWrite(checked, read.df)} :
                  IF read.error = "none"
                  THEN /\ fs' = done.fs
                       /\ calls' = Append(calls, CheckDirCall) \o done.calls
                       /\ raised' = done.raised
                       /\ printed' = {Warning}
                       /\ run_pc' = IF done.raised = NoError THEN "returned"
                                     ELSE "raised"
                  ELSE /\ fs' = checked
                       /\ calls' = Append(calls, CheckDirCall)
                       /\ IF read.error = "ValueError"
                          THEN /\ raised' = [type |-> "SystemExit", code |-> exit_string]
                               /\ printed' = {Warning, exit_string}
                               /\ run_pc' = "exited"
                          ELSE /\ raised' = [type |-> "FileNotFoundError",
                                              file |-> CacheFile]
                               /\ printed' = {Warning}
                               /\ run_pc' = "raised"
            /\ fetched' = {}
            /\ runs' = Append(runs, fs')
            /\ UNCHANGED <<pc, dlVars, lcVars>>
       ELSE /\ LoadCsvCalled(d1.item, FALSE, EmptyDict, "None", remote)
            /\ fs' = check_dir(fs, GermanyDir)
            /\ calls' = Append(calls, CheckDirCall)
            /\ printed' = {Warning}
            /\ fetched' = {UrlOf(d1.item)}
            /\ run_pc' = "loading"
            /\ UNCHANGED runs
    /\ UNCHANGED <<ncVars, df, popVars, todo, tool, read_data, remote>>

\* loadCsv is over: its error ends the run; else lines 53-61.
FinishGetOneDataSet ==
    /\ tool = "get_population_data"
    /\ run_pc = "loading"
    /\ lc_pc \in {"returned", "raised"}
    /\ IF lc_pc = "raised"
       THEN /\ run_pc' = "raised"
            /\ UNCHANGED <<fs, raised, calls>>
       ELSE \E table \in {TableOfCsv(df_csv)} :
            \E cached \in {write_dataframe(fs, table, GermanyDir, d1.filename,
                                           "json", <<>>)} :
            \E done \in {FilterAndWrite(cached.fs, table)} :
               /\ calls' = calls \o <<WriteCallAs(table, d1.filename, "json", fs)>>
                                 \o (IF cached.raised = NoError THEN done.calls ELSE <<>>)
               /\ fs' = IF cached.raised = NoError THEN done.fs ELSE cached.fs
               /\ raised' = IF cached.raised = NoError THEN done.raised ELSE cached.raised
               /\ run_pc' = IF raised' = NoError THEN "returned" ELSE "raised"
    /\ runs' = Append(runs, fs')
    /\ UNCHANGED <<pc, ncVars, df, popVars, dlVars, lcVars, cdVars,
                   tool, read_data, remote, fetched>>

\* The run of the tool is over.
RunOver ==
    /\ runs # <<>>
    /\ IF tool = "get_age_population_data"
       THEN pc \in {"returned", "raised"}
       ELSE run_pc \in {"returned", "raised", "exited"}

\* The tool is started again with the same arguments.
RunAgain ==
    /\ RunOver
    /\ call.op # "clean_data"
    /\ Len(runs) < MaxRuns
    /\ IF tool = "get_age_population_data"
       THEN pc' = "start" /\ UNCHANGED run_pc
       ELSE run_pc' = "start" /\ UNCHANGED pc
    /\ fetched' = {}
    /\ raised' = NoError
    /\ UNCHANGED <<ncVars, fs, df, calls, popVars, dlVars, lcVars, cdVars,
                   tool, read_data, remote, runs>>

\* clean_data is called for the population family, with or without hdf5.
CleanAfterRun ==
    /\ RunOver
    /\ call.op # "clean_data"
    /\ \E hdf5 \in BOOLEAN :
          BeginClean([all_data |-> FALSE, rki |-> FALSE, john_hopkins |-> FALSE,
                      spain |-> FALSE, population |-> TRUE, hdf5 |-> hdf5,
                      out_path |-> out_folder])

NextPipeline ==
    \/ tool = "get_age_population_data" /\ CallGetAgePopulationData
    \/ CallGetPopulationData
    \/ tool = "get_population_data" /\ SendRequest
    \/ tool = "get_population_data" /\ ReadChunkWithProgress
    \/ tool = "get_population_data" /\ ReturnFile
    \/ FinishLoadCsv
    \/ FinishGetOneDataSet
    \/ RunAgain
    \/ CleanAfterRun
    \/ CleanDirectory
    \/ ReturnFromClean

SpecPipeline == InitPipeline /\ [][NextPipeline]_vars

(***************************************************************************)
(* Properties of check_dir and write_dataframe.                            *)
(***************************************************************************)

SupportedFormats == {"json", "json_timeasstring", "hdf5", "txt"}

Wrote == call.op = "write_dataframe"

\* The file the last write_dataframe call is to write.
OutPath == <<call.directory, call.file_prefix, outForm[call.file_type]>>

\* C5: write_dataframe with a format outside {json, json_timeasstring, hdf5,
\* txt} raises the error naming the requested format and the allowed
\* formats, and creates or modifies no file.
C5_UnknownFormatRaises ==
    (Wrote /\ call.file_type \notin SupportedFormats) =>
        /\ pc = "raised"
        /\ raised.type = "ValueError"
        /\ raised.file_format = call.file_type
        /\ {raised.use[i] : i \in 1..Len(raised.use)} = SupportedFormats
        /\ fs = call.fs

\* "xml" is refused although its directory exists.
C5_Witness ==
    /\ Wrote
    /\ call.file_type = "xml"
    /\ Exists(call.fs, call.directory)
    /\ raised.type = "ValueError"
    /\ raised.file_format = "xml"

\* The Date step of json_timeasstring raised (C7), not the write itself.
DateStepRaised == raised.type \in {"IndexError", "AttributeError"}

IsDigit(ch) == \E i \in 1..Len(Digit) : Digit[i] = ch

\* YYYY-MM-DD
IsIsoDate(cell) ==
    /\ cell.kind = "str"
    /\ Len(cell.text) = 10
    /\ \A i \in 1..10 : IF i \in {5, 8} THEN cell.text[i] = "-"
                         ELSE IsDigit(cell.text[i])

\* The Date values of the records of a written json file.
WrittenDates(content) ==
    [r \in 1..Len(content.records) |->
        LET rec == content.records[r]
            c == CHOOSE k \in 1..Len(rec) : rec[k][1] = EngEngDate
        IN rec[c][2]]

\* The Date column holds timestamps only, or ISO date strings only.
DatetimeTyped(table) == HasColumn(table, EngEngDate) /\ IsDatetimeColumn(table)
IsoStringTyped(table) ==
    /\ HasColumn(table, EngEngDate)
    /\ \A r \in 1..Len(table.rows) : IsIsoDate(DateValues(table)[r])

\* The file holds, row by row, the ISO strings of the Date values of table.
DatesWrittenAsIso(table) ==
    /\ raised = NoError
    /\ OutPath \in DOMAIN fs.files
    /\ LET dates == WrittenDates(fs.files[OutPath])
       IN /\ Len(dates) = Len(table.rows)
          /\ \A r \in 1..Len(dates) :
                /\ IsIsoDate(dates[r])
                /\ dates[r] = IF DateValues(table)[r].kind = "datetime"
                              THEN strftime(DateValues(table)[r])
                              ELSE DateValues(table)[r]
    /\ CoerceDate(CoerceDate(table).df) = CoerceDate(table)

\* C7: writing any table with json_timeasstring (into an existing
\* directory) writes every value of its Date column as an ISO YYYY-MM-DD
\* string, for a Date column of timestamps and for one of ISO strings, and
\* the date coercion of an already coerced table changes nothing.
C7_DatesWrittenAsIsoStrings ==
    (/\ Wrote
     /\ call.file_type = "json_timeasstring"
     /\ Exists(call.fs, call.directory)
     /\ DatetimeTyped(call.df) \/ IsoStringTyped(call.df))
        => DatesWrittenAsIso(call.df)

\* What the code does keep of C7: the same for tables with at least one row.
C7_NonEmptyTablesWrittenAsIsoStrings ==
    (/\ Wrote
     /\ call.file_type = "json_timeasstring"
     /\ Exists(call.fs, call.directory)
     /\ Len(call.df.rows) > 0
     /\ DatetimeTyped(call.df) \/ IsoStringTyped(call.df))
        => DatesWrittenAsIso(call.df)

\* C17: after write_dataframe returns, for every format, the table passed
\* in holds in every column (Date under json_timeasstring included) the
\* values and types it held before the call.
C17_CallerTableUnchanged ==
    (pc = "returned" /\ call.op = "write_dataframe") => df = call.df

\* What does hold: the table is unchanged by every format other than
\* json_timeasstring, and by json_timeasstring when it has no Date column
\* or its first Date is a string.
C17_UnchangedUnlessDatesCoerced ==
    (pc = "returned" /\ call.op = "write_dataframe" /\ df # call.df) =>
        /\ call.file_type = "json_timeasstring"
        /\ IsDatetimeColumn(call.df)
        /\ df = WithDateAsString(call.df)

(***************************************************************************)
(* Properties of get_age_population_data.                                  *)
(***************************************************************************)

\* The rows of the table a written file holds.
RowsOfFile(content, file_type) ==
    IF file_type \in {"json", "json_timeasstring"}
    THEN [r \in 1..Len(content.records) |->
             [c \in 1..Len(content.records[r]) |-> content.records[r][c][2]]]
    ELSE content.table.rows

PopulationPath(file_prefix) == <<GermanyDir, file_prefix, outForm[out_form]>>

IsWritten(file_prefix) == PopulationPath(file_prefix) \in DOMAIN fs.files

WrittenRows(file_prefix) ==
    RowsOfFile(fs.files[PopulationPath(file_prefix)], out_form)

\* Census row i matches no row of reg_key by name and population.
Unmatched(i) ==
    \A j \in 1..Len(reg_key) :
        \/ zensus[i].Name # reg_key[j].NAME
        \/ zensus[i].EWZ # RoundHalfEven(reg_key[j].Zensus_EWZ[1] * 1000,
                                         reg_key[j].Zensus_EWZ[2])

NoZeroKeyWritten(file_prefix) ==
    /\ IsWritten(file_prefix)
    /\ \A r \in 1..Len(WrittenRows(file_prefix)) : WrittenRows(file_prefix)[r][1] # 0

\* C3: a census row that matches no reference row keeps key 0, and no row
\* with key 0 is in the key column of county_population or of
\* county_current_population.
C3_UnmatchedRowsExcluded ==
    pc = "returned" =>
        /\ \A i \in 1..Len(zensus) : Unmatched(i) => key[i] = 0
        /\ NoZeroKeyWritten("county_population")
        /\ NoZeroKeyWritten("county_current_population")

\* What the code does keep of C3: unmatched rows, and only they, have key 0;
\* the first of them is written under key 0 into both tables.
C3_FirstUnmatchedRowWritten ==
    pc = "returned" =>
        /\ \A i \in 1..Len(zensus) : Unmatched(i) <=> key[i] = 0
        /\ (\E i \in 1..Len(zensus) : Unmatched(i)) <=>
              ~NoZeroKeyWritten("county_population")
        /\ NoZeroKeyWritten("county_population") <=>
              NoZeroKeyWritten("county_current_population")

\* The rows of the current-population table that carry the key k.
ReferenceRows(k) ==
    {j \in 1..Len(counties) : counties[j].kind = "county" /\ counties[j].key = k}

\* Row i of data is rescaled in every column after the key by
\* (current population) / (census-era total), or is unmatched and unscaled.
RescaledRow(i) ==
    LET refs == ReferenceRows(data[i][1])
        written == WrittenRows("county_current_population")[i]
    IN IF refs = {}
       THEN /\ ratio[i] = <<1, 1>>
            /\ \A c \in 2..Width : written[c] = data[i][c]
       ELSE \E j \in refs :
            /\ data[i][2] # 0
            /\ ratio[i] = <<counties[j].pop, data[i][2]>>
            /\ \A c \in 2..Width :
                   written[c] = RoundHalfEven(data[i][c] * counties[j].pop, data[i][2])

\* C4: for every region row and every age-bracket column the rescaled value
\* is round(v * r), r = (current population of the reference row with the
\* same key) / (census-era total of the row); a region without reference
\* row has r = 1.0 and its raw values.
C4_RescaledByRatio ==
    pc = "returned" =>
        /\ IsWritten("county_current_population")
        /\ Len(WrittenRows("county_current_population")) = Len(data)
        /\ \A i \in 1..Len(data) : RescaledRow(i)

\* What the code does keep of C4: the same for the rows whose census-era
\* total is not 0.
C4_RescaledWhenTotalNotZero ==
    pc = "returned" =>
        /\ IsWritten("county_current_population")
        /\ Len(WrittenRows("county_current_population")) = Len(data)
        /\ \A i \in 1..Len(data) : data[i][2] # 0 => RescaledRow(i)


(***************************************************************************)
(* Properties of download_file.                                            *)
(***************************************************************************)

RECURSIVE Concat(_)
Concat(seqs) ==
    IF seqs = <<>> THEN <<>>
    ELSE Concat(SubSeq(seqs, 1, Len(seqs) - 1)) \o seqs[Len(seqs)]

\* The bytes read once the k-th chunk has arrived.
BytesRead(k) == Len(Concat(SubSeq(chunks, 1, k)))

\* Fractions <<numerator, denominator>> with positive denominators.
FracEq(a, b) == a[1] * b[2] = b[1] * a[2]
FracLeq(a, b) == a[1] * b[2] <= b[1] * a[2]
InUnitInterval(a) == a[2] > 0 /\ 0 <= a[1] /\ a[1] <= a[2]

NonDecreasing(fractions) ==
    \A k \in 1..(Len(fractions) - 1) : FracLeq(fractions[k], fractions[k + 1])

\* The request was answered 200 with a content-length, and a callback was passed.
ProgressRequested ==
    /\ pc # "start"
    /\ progress_function
    /\ response.status_code = 200
    /\ HasHeader(response.headers, "content-length")

\* C8: for a 200 response with a content-length header and a progress
\* callback, the callback is invoked once per chunk read, the k-th time with
\* min(bytes read by then, content_length)/content_length, a fraction in
\* [0,1], and the reported fractions never decrease.
C8_ProgressIsBytesReadFraction ==
    ProgressRequested =>
        /\ Len(reported) = Len(chunks)
        /\ \A k \in 1..Len(reported) :
              /\ InUnitInterval(reported[k])
              /\ FracEq(reported[k],
                        <<Min(BytesRead(k), file_size), file_size>>)
        /\ NonDecreasing(reported)

\* What does hold of the reports: with an integer chunk_size the k-th one is
\* min(k * chunk_size, content_length)/content_length, in [0,1], and they
\* never decrease; it is the fraction of bytes read when the body is not
\* content-encoded.
C8_ProgressIsChunkCountFraction ==
    (ProgressRequested /\ ~chunk_size.none) =>
        /\ Len(reported) = Len(chunks)
        /\ \A k \in 1..Len(reported) :
              /\ InUnitInterval(reported[k])
              /\ reported[k] = <<Min(k * chunk_size.value, file_size), file_size>>
              /\ response.content_encoding = "identity" =>
                    reported[k][1] = Min(BytesRead(k), file_size)
        /\ NonDecreasing(reported)

Finished == pc \in {"returned", "raised"}

ReturnedWholeBody ==
    /\ pc = "returned"
    /\ Concat(chunks) = response.body
    /\ result = Buffer(response.body, encoding)

\* C9: without a progress callback every 200 response, whatever its headers,
\* ends in a returned buffer holding the whole body, the chunks concatenated
\* in arrival order; a missing content-length header raises only when a
\* callback was passed.
C9_NoCallbackReturnsBody ==
    /\ (Finished /\ ~progress_function /\ response.status_code = 200)
          => ReturnedWholeBody
    /\ (pc = "raised" /\ raised.type = "TypeError" /\ raised.of = "int(None)")
          => progress_function

\* What does hold without a callback: a 200 response that states its
\* content-length ends in a returned buffer holding the whole body.
C9_NoCallbackReturnsBodyOfStatedLength ==
    (Finished /\ ~progress_function /\ response.status_code = 200
        /\ HasHeader(response.headers, "content-length"))
      => ReturnedWholeBody

\* The 2xx statuses.
IsSuccess(status_code) == status_code \in 200..299

\* C10: for every response whose status is not a success status
\* download_file raises HTTPError carrying the status code, with no chunk
\* read and the callback never invoked; a buffer is returned only for a
\* success status.
C10_NonSuccessRaisesBeforeBody ==
    /\ (pc # "start" /\ ~IsSuccess(response.status_code)) =>
          /\ pc = "raised"
          /\ raised = [type |-> "HTTPError", status_code |-> response.status_code]
          /\ chunks = <<>> /\ file = <<>> /\ reported = <<>>
          /\ raw_left = 0
          /\ result = NoBuffer
    /\ (pc = "returned" \/ result # NoBuffer) => IsSuccess(response.status_code)

\* A 404 with a body and a callback has been answered by HTTPError.
C10_Witness ==
    /\ pc = "raised"
    /\ response.status_code = 404
    /\ response.body # <<>>
    /\ progress_function
    /\ raised.type = "HTTPError"


(***************************************************************************)
(* Properties of loadCsv.                                                  *)
(***************************************************************************)

LoadCsvOver == lc_pc \in {"returned", "raised"}

\* The resource does not answer, or answers with an error status.
Unreachable == response = NoResponse \/ response.status_code >= 400

\* The resource answers 200 with a body that is not empty.
ReachableWellFormed ==
    response # NoResponse /\ response.status_code = 200 /\ response.body # <<>>

\* C11: loadCsv first fetches with download_file and, when that succeeds,
\* returns the table parsed from the payload; an unreachable resource ends
\* in FileNotFoundError naming the url (the fallback read of the url having
\* failed too); for a reachable resource with a well-formed body no error
\* of another type escapes.
C11_FetchThenFallback ==
    LoadCsvOver =>
        /\ pc = "returned" =>
              /\ lc_pc = "returned"
              /\ df_csv = [source |-> "payload", payload |-> result.value,
                           options |-> csv_options]
        /\ Unreachable =>
              /\ lc_pc = "raised"
              /\ raised = [type |-> "FileNotFoundError", url |-> UrlOf("x")]
        /\ ReachableWellFormed => raised.type \in {"none", "FileNotFoundError"}

\* What does hold: the fetch of loadCsv never returns.  A resource that
\* answers 200 ends the call in the TypeError download_file raises, a
\* resource that does not answer or answers 4xx/5xx in FileNotFoundError
\* naming the url, and no table is ever parsed from a fetched payload.
C11_FetchNeverReturns ==
    LoadCsvOver =>
        /\ pc = "raised"
        /\ df_csv.source # "payload"
        /\ (response # NoResponse /\ response.status_code = 200) =>
              lc_pc = "raised" /\ raised.type = "TypeError"
        /\ Unreachable =>
              /\ lc_pc = "raised"
              /\ raised = [type |-> "FileNotFoundError", url |-> UrlOf("x")]

OptionNames == DOMAIN param_dict_default("None")

\* The call passes a value for option k.
Supplies(k) == lc_args.supplied /\ k \in DOMAIN lc_args.param_dict

\* C12: after any sequence of calls, a call that passes no value for an
\* option uses the documented default of that option (sep ",", header 0,
\* the encoding argument of the call, dtype None), and a dict passed by the
\* caller is not modified.
C12_DefaultsNeverLeak ==
    lc_pc # "idle" =>
        /\ \A k \in OptionNames :
              ~Supplies(k) =>
                  csv_options[k] = param_dict_default(lc_args.encoding)[k]
        /\ lc_args.supplied => caller_dict = lc_args.param_dict

\* What does hold: the first call uses the documented defaults for the
\* options it passes no value for, and every call uses the values it passes.
C12_FirstCallUsesDefaults ==
    lc_pc # "idle" =>
        /\ \A k \in OptionNames :
              /\ Supplies(k) => csv_options[k] = lc_args.param_dict[k]
              /\ (~Supplies(k) /\ (ncalls = 1 \/ lc_args.supplied)) =>
                    csv_options[k] = param_dict_default(lc_args.encoding)[k]
        /\ lc_args.supplied => caller_dict = csv_options


(***************************************************************************)
(* Properties of clean_data.                                               *)
(***************************************************************************)

Cleaned == call.op = "clean_data" /\ pc \in {"returned", "raised"}

\* The call selects families, and not everything.
SelectsFamilies ==
    /\ ~call.args.all_data
    /\ call.args.rki \/ call.args.john_hopkins \/ call.args.spain \/ call.args.population

\* The families selected, each with its country directories.
SelectedIn(directory) ==
    LET country(name) == directory = call.args.out_path \o <<name>>
    IN (IF call.args.rki /\ country("Germany") THEN {"rki"} ELSE {})
       \cup (IF call.args.population /\ country("Germany") THEN {"population"} ELSE {})
       \cup (IF call.args.spain /\ country("Spain") THEN {"spain"} ELSE {})
       \cup (IF call.args.john_hopkins
                 /\ \E i \in 1..Len(directories) : country(directories[i])
             THEN {"jh"} ELSE {})

\* The files of the tree the call started from that lie in a country
\* directory of a selected family and match its patterns and the suffix.
FamilyFiles ==
    {f \in DOMAIN call.fs.files :
        \E family \in SelectedIn(f[1]) :
            Deletes(FileName(f), family, EndingOf(call.args.hdf5))}

\* The files left are the files of before without those of the set, unchanged.
DeletedExactly(gone) ==
    /\ DOMAIN fs.files = DOMAIN call.fs.files \ gone
    /\ \A f \in DOMAIN fs.files : fs.files[f] = call.fs.files[f]

\* No directory appeared, and a directory that is gone has no entry left.
OnlyEmptyDirectoriesRemoved ==
    /\ fs.dirs \subseteq call.fs.dirs
    /\ \A d \in call.fs.dirs \ fs.dirs : CanRmdir(fs, d)

\* C13: clean_data with a selection of families deletes exactly the files in
\* the country directories of the selected families whose names match the
\* family's patterns and the selected suffix, leaves every other file
\* unchanged, removes a directory only if it is empty after the deletions,
\* and skips missing and non-empty directories without an error; with no
\* family and not all selected it deletes nothing and prints the usage hint.
C13_DeletesExactlyFamilyFiles ==
    /\ (Cleaned /\ SelectsFamilies) =>
          /\ pc = "returned"
          /\ DeletedExactly(FamilyFiles)
          /\ OnlyEmptyDirectoriesRemoved
    /\ (Cleaned /\ ~SelectsFamilies /\ ~call.args.all_data) =>
          /\ pc = "returned"
          /\ fs = call.fs
          /\ printed = {UsageHint}

\* The files directly in out_path that the john_hopkins family deletes too
\* (lines 150-162).
FurtherJhFiles ==
    {f \in DOMAIN call.fs.files :
        /\ call.args.john_hopkins
        /\ f[1] = call.args.out_path
        /\ Deletes(FileName(f), "jh_root", EndingOf(call.args.hdf5))}

\* What does hold: a call that returns has deleted exactly the family files
\* and the further john_hopkins files in out_path, and removed only empty
\* directories; a call raises only at a subdirectory whose name passes the
\* test of a selected family, and then has deleted some of those files only.
C13_DeletesFamilyAndFurtherJhFiles ==
    (Cleaned /\ SelectsFamilies) =>
        /\ OnlyEmptyDirectoriesRemoved
        /\ pc = "returned" => DeletedExactly(FamilyFiles \cup FurtherJhFiles)
        /\ pc = "raised" =>
              /\ raised.type = "IsADirectoryError"
              /\ \E gone \in SUBSET (FamilyFiles \cup FurtherJhFiles) :
                    DeletedExactly(gone)
              /\ \E d \in call.fs.dirs : d # <<>> /\
                    \E family \in SelectedIn(SubSeq(d, 1, Len(d) - 1)) :
                        Deletes(Chars[d[Len(d)]], family, EndingOf(call.args.hdf5))

\* The example of C13: rki only, Germany/123_rki.json is deleted and
\* Germany/other.json is kept.
C13_RkiExample ==
    (Cleaned /\ call.args = [all_data |-> FALSE, rki |-> TRUE, john_hopkins |-> FALSE,
                              spain |-> FALSE, population |-> FALSE, hdf5 |-> FALSE,
                              out_path |-> out_folder]
        /\ DOMAIN call.fs.files = {<<GermanyDir, "123_rki", ".json">>,
                                    <<GermanyDir, "other", ".json">>}
        /\ SubdirsOf(call.fs, GermanyDir) = {})
      => /\ pc = "returned"
         /\ DOMAIN fs.files = {<<GermanyDir, "other", ".json">>}
         /\ Exists(fs, GermanyDir)

(***************************************************************************)
(* Properties of the population tools run, run again, and cleaned up.      *)
(***************************************************************************)

\* The file system the current run started from: check_dir is the first
\* call of every run.
RunStarts ==
    {i \in 1..Len(calls) : calls[i].op = "check_dir"}
StartOfRun(n) ==
    calls[CHOOSE i \in RunStarts : Cardinality({j \in RunStarts : j <= i}) = n].fs
StartOfLastRun == StartOfRun(Cardinality(RunStarts))

\* The run ended in an error shown to the user, with a non-zero exit status:
\* sys.exit(exit_string), or an exception that nothing catches.
EndedInError ==
    IF tool = "get_age_population_data" THEN pc = "raised"
    ELSE run_pc \in {"exited", "raised"}

\* What the run does when reading from the cache is requested.
ReadsFromCacheOnly ==
    /\ fetched = {}
    /\ CacheFile \notin DOMAIN StartOfLastRun.files =>
          /\ EndedInError
          /\ fs.files = StartOfLastRun.files

\* C14: when read_data is requested a population run fetches no remote
\* table and reads its table from <out_folder>/Germany/<filename>.json; when
\* that file is absent it ends in an error and writes no file.
C14_ReadFromCacheFetchesNothing ==
    (RunOver /\ call.op # "clean_data" /\ read_data) => ReadsFromCacheOnly

\* C14, for get_population_data alone (get_one_data_set): it holds, and the
\* table written is the one of the cache.
C14_GetOneDataSetReadsCache ==
    (RunOver /\ call.op # "clean_data" /\ read_data
        /\ tool = "get_population_data") =>
       /\ ReadsFromCacheOnly
       /\ run_pc = "returned" =>
             fs.files[<<GermanyDir, d1.filename_out, outForm[out_form]>>]
                = Serialized(Filtered(read_json(StartOfLastRun.files[CacheFile]),
                                      d1.columns_wanted), out_form, <<>>)

\* get_age_population_data, which main() calls, has read its three remote
\* tables although read_data was requested.
C14_AgeToolFetchesAnyway ==
    /\ tool = "get_age_population_data" /\ read_data /\ RunOver
    /\ fetched = RemoteTables
    /\ CacheFile \notin DOMAIN StartOfLastRun.files
    /\ pc = "returned"
    /\ fs.files # StartOfLastRun.files

\* The files the write_dataframe calls made so far are to write.
WrittenPaths ==
    {<<calls[i].directory, calls[i].file_prefix, outForm[calls[i].file_type]>> :
        i \in {j \in 1..Len(calls) : calls[j].op = "write_dataframe"}}

\* The artifacts of the population tools, under <out_folder>/Germany/.
Artifacts ==
    {<<GermanyDir, prefix, outForm[out_form]>> :
        prefix \in {d1.filename_out, "county_population", "county_current_population"}}
    \cup {CacheFile}

\* A run wrote to its artifacts and left every other file as it was.
TouchedArtifactsOnly(before, after) ==
    /\ DOMAIN after.files \subseteq DOMAIN before.files \cup WrittenPaths
    /\ \A f \in DOMAIN before.files \ WrittenPaths :
          f \in DOMAIN after.files /\ after.files[f] = before.files[f]

ToggleMatchesFormat == outForm[out_form] = IF call.args.hdf5 THEN ".h5" ELSE ".json"

\* The files the runs wrote that were there when clean_data was called.
LeftByRuns == WrittenPaths \cap DOMAIN runs[Len(runs)].files

\* C16: after a run of a population tool, clean_data for the population
\* family with the suffix of the run's format leaves none of the files the
\* run wrote under <out_folder>/Germany/.
C16_CleanRemovesWhatTheRunWrote ==
    (Cleaned /\ call.args.population /\ ToggleMatchesFormat) =>
        \A f \in LeftByRuns : f \notin DOMAIN fs.files

\* What clean_data does remove of them: PopulStates, and the raw cache
\* FullDataB.json when the suffix selected is json; county_population and
\* county_current_population stay, and so does everything with the other
\* suffix.
C16_CleanRemovesPopulStatesAndJsonCache ==
    (Cleaned /\ call.args.population) =>
        \A f \in LeftByRuns :
            f \notin DOMAIN fs.files <=>
                /\ f[2] \in {d1.filename_out, d1.filename}
                /\ f[3] = IF call.args.hdf5 THEN ".h5" ELSE ".json"

\* get_age_population_data wrote json, clean_data was called for json, and
\* county_population.json is still there.
C16_CountyFilesRemain ==
    /\ Cleaned /\ call.args.population /\ ToggleMatchesFormat
    /\ tool = "get_age_population_data" /\ out_form = "json"
    /\ <<GermanyDir, "county_population", ".json">> \in LeftByRuns \cap DOMAIN fs.files
    /\ <<GermanyDir, "county_current_population", ".json">> \in LeftByRuns \cap DOMAIN fs.files

\* get_population_data wrote hdf5, clean_data was called for hdf5, and the
\* raw cache FullDataB.json is still there.
C16_JsonCacheRemains ==
    /\ Cleaned /\ call.args.population /\ ToggleMatchesFormat
    /\ tool = "get_population_data" /\ out_form = "hdf5"
    /\ CacheFile \in LeftByRuns \cap DOMAIN fs.files
    /\ <<GermanyDir, d1.filename_out, ".h5">> \in LeftByRuns \ DOMAIN fs.files

============================================================================
